---- MODULE Spec2Model ----
(***************************************************************************)
(* zk-gas-soundness (src/app.py): a single-shot command-line tool that     *)
(* fetches the last N block headers over JSON-RPC, derives per-block gas   *)
(* utilization, and prints aggregate statistics.                           *)
(*                                                                         *)
(* Number representation.  A Python float is a binary64 value, held here   *)
(* as a 53-bit significand and an exponent; division, multiplication and   *)
(* addition are the correctly rounded IEEE 754 operations (round to        *)
(* nearest, ties to even), and sum() is the left-to-right addition of the  *)
(* interpreter the program runs on.  round(x, n) and the .1f format round  *)
(* the exact binary value to n decimals, ties to even.  A float that       *)
(* results from round(x, n) is held as the integer x * 10^n:               *)
(*   utilization_percent, avg/max/min_utilization_percent : hundredths     *)
(*   avg_base_fee_gwei                                     : thousandths    *)
(*   progress percentage ({percent:.1f})                   : tenths         *)
(* and is turned back into the nearest binary64 value where it is used.    *)
(***************************************************************************)
EXTENDS Integers, Sequences, FiniteSets

VARIABLES
    pc,            \* position of main (or of a pure-function run)
    rpc,           \* args.rpc, a sequence of characters
    count,         \* args.count
    json,          \* args.json
    head,          \* the node's current head block number (environment)
    latest,        \* analyze_blocks: local `latest`
    i,             \* analyze_blocks: loop variable
    acc,           \* analyze_blocks: local list `blocks`
    blocks,        \* main: `blocks` (unset until analyze_blocks returns)
    summary,       \* main: `summary` (unset until summarize returns)
    summary_reads, \* keys main has looked up in `summary`
    exit_code,     \* process exit status (-1 while running)
    net_calls,     \* remote calls issued so far, in order
    fetches,       \* fetch_gas_data invocations: block id and whether it returned
    progress,      \* progress lines printed by analyze_blocks
    stdout,        \* other output, as tags
    json_out,      \* the JSON document printed with --json
    input,         \* argument of a pure-function run
    output         \* result of a pure-function run

vars == <<pc, rpc, count, json, head, latest, i, acc, blocks, summary,
          summary_reads, exit_code, net_calls, fetches, progress, stdout,
          json_out, input, output>>

----------------------------------------------------------------------------
(* Bounds and input domains *)

MaxCount == 3
MaxHead == 3
MaxLen == 3
MaxGasUsed == 2

WeiPerGwei == 1000000000

GasLimits == {0, 1, 2, 3, 7, 16, 32, 160, 30000000}
GasUsedValues == (0..MaxGasUsed) \cup {23, 1500, 15000000}
\* gas limit and gas used of the blocks handed to summarize: utilizations
\* 0, 0.0, 6.25, 28.57 and 100.0
SumGas == {<<0, 1>>, <<1, 0>>, <<16, 1>>, <<7, 2>>, <<1, 1>>}
BaseFees == {0, 500000000}
Timestamps == {12, 3661}

UrlHttp == <<"h","t","t","p",":","/","/","n">>
UrlHttps == <<"h","t","t","p","s",":","/","/","n">>
UrlFtp == <<"f","t","p",":","/","/","x">>
UrlBare == <<"n">>
RpcUrls == {UrlHttp, UrlHttps, UrlFtp, UrlBare}

----------------------------------------------------------------------------
(* Values *)

Unset == [set |-> FALSE]
Val(v) == [set |-> TRUE, value |-> v]

Ok(v) == [ok |-> TRUE, value |-> v]
Raise(e) == [ok |-> FALSE, error |-> e]

\* n >= 0 in binary, most significant bit first (<<>> for 0)
Bits(n) ==
    LET len == Cardinality({k \in 0..30 : 2^k <= n})
    IN  [k \in 1..len |-> (n \div 2^(len - k)) % 2]

\* The loops over bit sequences below split the sequence in halves.
RECURSIVE BitsToInt(_)
BitsToInt(b) ==
    IF b = <<>> THEN 0
    ELSE IF Len(b) = 1 THEN b[1]
    ELSE LET h == Len(b) \div 2
         IN  BitsToInt(SubSeq(b, 1, h)) * 2^(Len(b) - h)
                 + BitsToInt(SubSeq(b, h + 1, Len(b)))

Zeros(cnt) == [z \in 1..cnt |-> 0]
AnyOne(b) == \E k \in 1..Len(b) : b[k] = 1

StripZeros(b) ==
    IF ~AnyOne(b) THEN <<>>
    ELSE SubSeq(b, CHOOSE k \in 1..Len(b) :
                       b[k] = 1 /\ \A j \in 1..(k - 1) : b[j] = 0,
                Len(b))

\* b + 1
Increment(b) ==
    IF \A k \in 1..Len(b) : b[k] = 1 THEN <<1>> \o Zeros(Len(b))
    ELSE LET last == CHOOSE k \in 1..Len(b) :
                         b[k] = 0 /\ \A j \in (k + 1)..Len(b) : b[j] = 1
         IN  [k \in 1..Len(b) |->
                 IF k < last THEN b[k] ELSE IF k = last THEN 1 ELSE 0]

\* Long division of bits lo..hi of b by d, with r carried in from the bits
\* before: the quotient bits and the remainder.
RECURSIVE DivLoop(_, _, _, _, _)
DivLoop(b, lo, hi, d, r) ==
    IF lo > hi THEN [q |-> <<>>, r |-> r]
    ELSE IF lo = hi
    THEN IF 2 * r + b[lo] >= d
         THEN [q |-> <<1>>, r |-> 2 * r + b[lo] - d]
         ELSE [q |-> <<0>>, r |-> 2 * r + b[lo]]
    ELSE LET mid == (lo + hi) \div 2
             left == DivLoop(b, lo, mid, d, r)
             right == DivLoop(b, mid + 1, hi, d, left.r)
         IN  [q |-> left.q \o right.q, r |-> right.r]

\* Bits lo..hi of b times the small number f, with a carry from the bits
\* after: the product bits and the carry out.
RECURSIVE MulLoop(_, _, _, _, _)
MulLoop(b, lo, hi, f, carry) ==
    IF lo > hi THEN [out |-> <<>>, carry |-> carry]
    ELSE IF lo = hi
    THEN [out |-> <<(b[lo] * f + carry) % 2>>,
          carry |-> (b[lo] * f + carry) \div 2]
    ELSE LET mid == (lo + hi) \div 2
             right == MulLoop(b, mid + 1, hi, f, carry)
             left == MulLoop(b, lo, mid, f, right.carry)
         IN  IF right.carry >= 0   \* the lower half first
             THEN [out |-> left.out \o right.out, carry |-> left.carry]
             ELSE [out |-> <<>>, carry |-> 0]

\* b * f
MulBits(b, f) ==
    LET res == MulLoop(b, 1, Len(b), f, 0)
    IN  Bits(res.carry) \o res.out

\* Bits lo..hi of a + b (of equal length), with a carry from the bits after.
RECURSIVE AddLoop(_, _, _, _, _)
AddLoop(a, b, lo, hi, carry) ==
    IF lo > hi THEN [out |-> <<>>, carry |-> carry]
    ELSE IF lo = hi
    THEN [out |-> <<(a[lo] + b[lo] + carry) % 2>>,
          carry |-> (a[lo] + b[lo] + carry) \div 2]
    ELSE LET mid == (lo + hi) \div 2
             right == AddLoop(a, b, mid + 1, hi, carry)
             left == AddLoop(a, b, lo, mid, right.carry)
         IN  IF right.carry >= 0   \* the lower half first
             THEN [out |-> left.out \o right.out, carry |-> left.carry]
             ELSE [out |-> <<>>, carry |-> 0]

\* A binary64 value >= 0: m * 2^e with m of 53 bits, the first one 1.
FZero == [m |-> <<>>, e |-> 0]

\* The binary64 value nearest to bits * 2^e (plus a nonzero amount below the
\* last bit when sticky), ties to even.
RoundToDouble(bits, e, sticky) ==
    LET b == StripZeros(bits)
        n == Len(b)
    IN  IF n = 0 THEN FZero
        ELSE IF n <= 53 THEN [m |-> b \o Zeros(53 - n), e |-> e - (53 - n)]
        ELSE LET m == SubSeq(b, 1, 53)
                 up == /\ b[54] = 1
                       /\ (sticky \/ AnyOne(SubSeq(b, 55, n)) \/ m[53] = 1)
                 m2 == IF up THEN Increment(m) ELSE m
             IN  IF Len(m2) = 54
                 THEN [m |-> SubSeq(m2, 1, 53), e |-> e + (n - 53) + 1]
                 ELSE [m |-> m2, e |-> e + (n - 53)]

\* float(n) for an int n >= 0
FromInt(n) == RoundToDouble(Bits(n), 0, FALSE)

\* x / d for a float x and a number d with 0 < d < 2^30
FDiv(x, d) ==
    IF x.m = <<>> THEN FZero
    ELSE LET res == DivLoop(x.m \o Zeros(90), 1, Len(x.m) + 90, d, 0)
         IN  RoundToDouble(res.q, x.e - 90, res.r # 0)

\* x * f for a float x and a small number f
FMul(x, f) ==
    IF x.m = <<>> THEN FZero
    ELSE RoundToDouble(MulBits(x.m, f), x.e, FALSE)

\* x + y
FAdd(x, y) ==
    IF x.m = <<>> THEN y
    ELSE IF y.m = <<>> THEN x
    ELSE LET e == IF x.e < y.e THEN x.e ELSE y.e
             a0 == x.m \o Zeros(x.e - e)
             b0 == y.m \o Zeros(y.e - e)
             n == IF Len(a0) > Len(b0) THEN Len(a0) ELSE Len(b0)
             a == Zeros(n - Len(a0)) \o a0
             b == Zeros(n - Len(b0)) \o b0
             res == AddLoop(a, b, 1, n, 0)
         IN  RoundToDouble(Bits(res.carry) \o res.out, e, FALSE)

\* round(x, n) as the integer x * scale, scale = 10^n: the exact value of x
\* rounded to n decimals, ties to even.
PyRound(x, scale) ==
    IF x.m = <<>> THEN 0
    ELSE LET exact == MulBits(x.m, scale)
             fl == IF x.e < 0 THEN -x.e ELSE 0
             all == IF x.e < 0
                    THEN Zeros(IF fl > Len(exact) THEN fl - Len(exact) ELSE 0)
                         \o exact
                    ELSE exact \o Zeros(x.e)
             q == BitsToInt(StripZeros(SubSeq(all, 1, Len(all) - fl)))
             frac == SubSeq(all, Len(all) - fl + 1, Len(all))
         IN  IF frac = <<>> \/ frac[1] = 0 THEN q
             ELSE IF AnyOne(Tail(frac)) THEN q + 1
             ELSE IF q % 2 = 0 THEN q ELSE q + 1

\* the float that round(x, n) returned, from the integer p = x * scale
Decimal(p, scale) == FDiv(FromInt(p), scale)

\* sum(floats), starting from the int 0
RECURSIVE FSum(_)
FSum(s) ==
    IF s = <<>> THEN FZero
    ELSE FAdd(FSum(SubSeq(s, 1, Len(s) - 1)), s[Len(s)])

RECURSIVE Sum(_)
Sum(s) == IF s = <<>> THEN 0 ELSE Head(s) + Sum(Tail(s))

Max(s) == CHOOSE x \in {s[k] : k \in 1..Len(s)} : \A j \in 1..Len(s) : s[j] <= x
Min(s) == CHOOSE x \in {s[k] : k \in 1..Len(s)} : \A j \in 1..Len(s) : x <= s[j]

\* str.startswith
startswith(s, prefix) ==
    /\ Len(s) >= Len(prefix)
    /\ SubSeq(s, 1, Len(prefix)) = prefix

----------------------------------------------------------------------------
(* fetch_gas_data *)

\* A block as the RPC library returns it: a mapping whose keys may be absent.
Absent == -1
MkBlock(number, timestamp, gasLimit, gasUsed, baseFee) ==
    LET v == [number |-> number, timestamp |-> timestamp, gasLimit |-> gasLimit,
              gasUsed |-> gasUsed, baseFeePerGas |-> baseFee]
    IN  [k \in {x \in DOMAIN v : v[x] # Absent} |-> v[k]]

\* dict.get(key, default)
Get(block, key, default) == IF key \in DOMAIN block THEN block[key] ELSE default

\* datetime.utcfromtimestamp(ts).isoformat() + "Z", for ts within January 1970
isoformat(ts) ==
    [year |-> 1970, month |-> 1, day |-> 1 + ts \div 86400,
     hour |-> (ts % 86400) \div 3600, minute |-> (ts % 3600) \div 60,
     second |-> ts % 60, suffix |-> "Z"]

utilization_ratio(gas_used, gas_limit) ==
    IF gas_limit # 0
    THEN PyRound(FDiv(FromInt(gas_used), gas_limit), 100)
    ELSE 0

\* line 18, in hundredths of a percent
utilization(gas_used, gas_limit) ==
    IF gas_limit # 0
    THEN PyRound(FMul(FDiv(FromInt(gas_used), gas_limit), 100), 100)
    ELSE 0

fetch_gas_data_strict(reply) ==
    IF ~reply.ok THEN Raise(reply.error)
    ELSE LET block == reply.value
         IN  IF \E k \in {"gasLimit", "gasUsed", "number", "timestamp"} :
                    k \notin DOMAIN block
             THEN Raise("KeyError")
             ELSE Ok([block_number |-> block["number"],
                      base_fee_wei |-> Get(block, "baseFeePerGas", 0),
                      gas_limit |-> block["gasLimit"],
                      gas_used |-> block["gasUsed"],
                      utilization_percent |->
                          utilization(block["gasUsed"], block["gasLimit"]),
                      timestamp |-> isoformat(block["timestamp"])])

\* reply: what w3.eth.get_block gave, a block or a raised error
fetch_gas_data(reply) ==
    IF ~reply.ok THEN Raise(reply.error)
    ELSE LET block == reply.value
             base_fee == Get(block, "baseFeePerGas", 0)
             gas_limit == Get(block, "gasLimit", 0)
             gas_used == Get(block, "gasUsed", 0)
         IN  IF "number" \notin DOMAIN block THEN Raise("AttributeError")
             ELSE IF "timestamp" \notin DOMAIN block THEN Raise("AttributeError")
             ELSE Ok([block_number |-> block["number"],
                      base_fee_wei |-> base_fee,
                      gas_limit |-> gas_limit,
                      gas_used |-> gas_used,
                      utilization_percent |-> utilization(gas_used, gas_limit),
                      timestamp |-> isoformat(block["timestamp"])])

----------------------------------------------------------------------------
(* summarize *)

NoData == [ok |-> FALSE, msg |-> "No data"]

StatKeys == <<"avg_utilization_percent", "max_utilization_percent",
              "min_utilization_percent", "avg_base_fee_gwei", "total_blocks">>

Stats(bs) ==
    LET utils == [k \in 1..Len(bs) |-> bs[k].utilization_percent]
        fees == [k \in 1..Len(bs) |-> bs[k].base_fee_wei]
        avg_util == FDiv(FSum([k \in 1..Len(utils) |-> Decimal(utils[k], 100)]),
                         Len(utils))
        high == Decimal(Max(utils), 100)
        low == Decimal(Min(utils), 100)
        avg_base_fee == FDiv(FromInt(Sum(fees)), Len(bs))
    IN  [avg_utilization_percent |-> PyRound(avg_util, 100),
         max_utilization_percent |-> PyRound(high, 100),
         min_utilization_percent |-> PyRound(low, 100),
         avg_base_fee_gwei |-> PyRound(FDiv(avg_base_fee, WeiPerGwei), 1000),
         total_blocks |-> Len(bs)]

summarize_swapped(bs) ==
    IF bs = <<>> THEN Ok(NoData)
    ELSE Ok([Stats(bs) EXCEPT
                !.max_utilization_percent = Stats(bs).min_utilization_percent,
                !.min_utilization_percent = Stats(bs).max_utilization_percent])

summarize_noguard(bs) ==
    IF bs = <<>> THEN Raise("ZeroDivisionError") ELSE Ok(Stats(bs))

summarize(bs) ==
    IF bs = <<>> THEN Ok(NoData) ELSE Ok(Stats(bs))

----------------------------------------------------------------------------
(* The node, as the program sees it *)

\* What w3.eth.get_block(block_id) can give: an error (timeout, disconnect, no
\* such block), or the block with that number, possibly with keys missing.
\* A negative identifier never resolves to a block.
ChainReplies(block_id) ==
    IF block_id < 0 THEN {Raise("BlockNotFound")}
    ELSE {Raise("Timeout")} \cup
         {Ok(b) : b \in {MkBlock(block_id, 12 * block_id, 16, 1, Absent),
                         MkBlock(block_id, 12 * block_id, 2, 1, 500000000),
                         MkBlock(block_id, 12 * block_id, Absent, 1, 0),
                         MkBlock(Absent, 12 * block_id, 2, 1, 0),
                         MkBlock(block_id, Absent, 2, 1, 0)}}

----------------------------------------------------------------------------
(* main and analyze_blocks *)

ValidRpcUrlLoose(url) ==
    \E k \in 1..(Len(url) - 2) : SubSeq(url, k, k + 2) = <<":", "/", "/">>

\* line 70
ValidRpcUrl(url) ==
    \/ startswith(url, <<"h","t","t","p",":","/","/">>)
    \/ startswith(url, <<"h","t","t","p","s",":","/","/">>)

RangeStartOffByOne(latest_, count_) == latest_ - count_ + 2

\* line 32: first value of range(latest - count + 1, latest + 1)
RangeStart(latest_, count_) == latest_ - count_ + 1

\* sys.exit(code) after printing `tag`
Exit(code, tag) ==
    /\ pc' = "done"
    /\ exit_code' = code
    /\ stdout' = Append(stdout, tag)

Init ==
    /\ pc = "start"
    /\ rpc \in RpcUrls
    /\ count \in -1..MaxCount
    /\ json \in BOOLEAN
    /\ head \in 0..MaxHead
    /\ latest = 0
    /\ i = 0
    /\ acc = <<>>
    /\ blocks = Unset
    /\ summary = Unset
    /\ summary_reads = <<>>
    /\ exit_code = -1
    /\ net_calls = <<>>
    /\ fetches = <<>>
    /\ progress = <<>>
    /\ stdout = <<>>
    /\ json_out = Unset
    /\ input = Unset
    /\ output = Unset

\* lines 69-72
ValidateRpc ==
    /\ pc = "start"
    /\ IF ~ValidRpcUrl(rpc)
       THEN Exit(1, "invalid_rpc")
       ELSE /\ pc' = "connect"
            /\ UNCHANGED <<exit_code, stdout>>
    /\ UNCHANGED <<rpc, count, json, head, latest, i, acc, blocks, summary,
                   summary_reads, net_calls, fetches, progress, json_out,
                   input, output>>

\* lines 74-82
Connect ==
    /\ pc = "connect"
    /\ net_calls' = Append(net_calls, "is_connected")
    /\ \E up \in BOOLEAN :
          IF ~up
          THEN Exit(1, "conn_failed")
          ELSE /\ pc' = "analyze"
               /\ stdout' = Append(stdout, "banner")
               /\ UNCHANGED exit_code
    /\ UNCHANGED <<rpc, count, json, head, latest, i, acc, blocks, summary,
                   summary_reads, fetches, progress, json_out, input, output>>

\* lines 84-86, 30-32 (and 88-90 when the head query raises)
ReadHead ==
    /\ pc = "analyze"
    /\ net_calls' = Append(net_calls, "block_number")
    /\ \E answered \in BOOLEAN :
          IF ~answered
          THEN /\ Exit(2, "error")
               /\ UNCHANGED <<latest, i, acc>>
          ELSE /\ latest' = head
               /\ i' = RangeStart(head, count)
               /\ acc' = <<>>
               /\ pc' = "loop"
               /\ UNCHANGED <<exit_code, stdout>>
    /\ UNCHANGED <<rpc, count, json, head, blocks, summary, summary_reads,
                   fetches, progress, json_out, input, output>>

\* lines 32-36: the progress line of one iteration
Progress ==
    /\ pc = "loop"
    /\ i <= latest
    /\ LET processed == i - RangeStart(latest, count) + 1
       IN  progress' = Append(progress,
                              [block |-> i, processed |-> processed,
                               total |-> count,
                               percent |->
                                   PyRound(FMul(FDiv(FromInt(processed), count),
                                                100), 10)])
    /\ pc' = "fetch"
    /\ UNCHANGED <<rpc, count, json, head, latest, i, acc, blocks, summary,
                   summary_reads, exit_code, net_calls, fetches, stdout,
                   json_out, input, output>>

FetchStepLenient(reply) ==
    LET r == fetch_gas_data(reply)
    IN  /\ net_calls' = Append(net_calls, "get_block")
        /\ fetches' = Append(fetches, [block |-> i, ok |-> r.ok])
        /\ acc' = IF r.ok THEN Append(acc, r.value) ELSE acc
        /\ i' = i + 1
        /\ pc' = "loop"
        /\ UNCHANGED <<exit_code, stdout>>

\* lines 37-38; a raised error unwinds analyze_blocks to lines 88-90
FetchStep(reply) ==
    LET r == fetch_gas_data(reply)
    IN  /\ net_calls' = Append(net_calls, "get_block")
        /\ fetches' = Append(fetches, [block |-> i, ok |-> r.ok])
        /\ IF r.ok
           THEN /\ acc' = Append(acc, r.value)
                /\ i' = i + 1
                /\ pc' = "loop"
                /\ UNCHANGED <<exit_code, stdout>>
           ELSE /\ acc' = <<>>
                /\ Exit(2, "error")
                /\ UNCHANGED i

FetchBlock ==
    /\ pc = "fetch"
    /\ \E reply \in ChainReplies(i) : FetchStep(reply)
    /\ UNCHANGED <<rpc, count, json, head, latest, blocks, summary,
                   summary_reads, progress, json_out, input, output>>

\* lines 39, 86-87, 91 (and 88-90 if summarize raises)
Summarize ==
    /\ pc = "loop"
    /\ i > latest
    /\ LET s == summarize(acc)
       IN  IF s.ok
           THEN /\ blocks' = Val(acc)
                /\ summary' = Val(s.value)
                /\ pc' = "report"
                /\ UNCHANGED <<exit_code, stdout>>
           ELSE /\ blocks' = Val(acc)
                /\ Exit(2, "error")
                /\ UNCHANGED summary
    /\ UNCHANGED <<rpc, count, json, head, latest, i, acc, summary_reads,
                   net_calls, fetches, progress, json_out, input, output>>

\* The keys of `keys` looked up in d, in order, up to the first one missing.
ReadKeys(d, keys) ==
    LET missing == {k \in 1..Len(keys) : keys[k] \notin DOMAIN d}
    IN  IF missing = {} THEN keys
        ELSE SubSeq(keys, 1, CHOOSE k \in missing : \A j \in missing : k <= j)

\* lines 93-111; a failed lookup is an uncaught KeyError, which ends the
\* interpreter with status 1
Report ==
    /\ pc = "report"
    /\ summary_reads' = ReadKeys(summary.value, StatKeys)
    /\ IF \A k \in 1..Len(StatKeys) : StatKeys[k] \in DOMAIN summary.value
       THEN /\ stdout' = stdout \o <<"summary">> \o
                         (IF json THEN <<"json">> ELSE <<>>)
            /\ json_out' = IF json
                           THEN Val([rpc |-> rpc, blocks |-> blocks.value,
                                     summary |-> summary.value])
                           ELSE json_out
            /\ exit_code' = 0
       ELSE /\ stdout' = stdout \o <<"summary_header", "traceback">>
            /\ exit_code' = 1
            /\ UNCHANGED json_out
    /\ pc' = "done"
    /\ UNCHANGED <<rpc, count, json, head, latest, i, acc, blocks, summary,
                   net_calls, fetches, progress, input, output>>

\* The chain grows while the loop runs.
AdvanceHead ==
    /\ pc \in {"loop", "fetch"}
    /\ head < MaxHead
    /\ head' = head + 1
    /\ UNCHANGED <<pc, rpc, count, json, latest, i, acc, blocks, summary,
                   summary_reads, exit_code, net_calls, fetches, progress,
                   stdout, json_out, input, output>>

Next ==
    \/ ValidateRpc
    \/ Connect
    \/ ReadHead
    \/ Progress
    \/ FetchBlock
    \/ Summarize
    \/ Report
    \/ AdvanceHead

Spec == Init /\ [][Next]_vars

----------------------------------------------------------------------------
(* fetch_gas_data and summarize as pure functions of their inputs *)

Idle ==
    /\ rpc = UrlHttp
    /\ count = 1
    /\ json = FALSE
    /\ head = 0
    /\ latest = 0
    /\ i = 0
    /\ acc = <<>>
    /\ blocks = Unset
    /\ summary = Unset
    /\ summary_reads = <<>>
    /\ exit_code = -1
    /\ net_calls = <<>>
    /\ fetches = <<>>
    /\ progress = <<>>
    /\ stdout = <<>>
    /\ json_out = Unset
    /\ output = Unset

\* The gas limit and gas used of a response, either possibly absent; the
\* utilization stays below 2^31 hundredths, the largest TLC's integers
\* hold.
GasPairs ==
    {g \in (GasLimits \cup {Absent}) \X (GasUsedValues \cup {Absent}) :
        g[1] > 0 => g[2] \div g[1] <= 200000}

FetchInputs ==
    {Raise("Timeout")} \cup
    {Ok(MkBlock(n, t, g[1], g[2], f)) :
        n \in (0..MaxHead) \cup {Absent}, t \in Timestamps \cup {Absent},
        g \in GasPairs, f \in BaseFees \cup {Absent}}

InitFetch ==
    /\ pc = "fetch_in"
    /\ input \in FetchInputs
    /\ Idle

ApplyFetch ==
    /\ pc = "fetch_in"
    /\ output' = fetch_gas_data(input)
    /\ pc' = "fetch_out"
    /\ UNCHANGED <<rpc, count, json, head, latest, i, acc, blocks, summary,
                   summary_reads, exit_code, net_calls, fetches, progress,
                   stdout, json_out, input>>

SpecFetch == InitFetch /\ [][ApplyFetch]_vars

\* BlockMetrics records as fetch_gas_data builds them
Metrics ==
    {fetch_gas_data(Ok(MkBlock(0, 12, g[1], g[2], f))).value :
        g \in SumGas, f \in BaseFees}

SumInputs == UNION {[1..n -> Metrics] : n \in 0..MaxLen}

InitSum ==
    /\ pc = "sum_in"
    /\ input \in SumInputs
    /\ Idle

ApplySummarize ==
    /\ pc = "sum_in"
    /\ output' = summarize(input)
    /\ pc' = "sum_out"
    /\ UNCHANGED <<rpc, count, json, head, latest, i, acc, blocks, summary,
                   summary_reads, exit_code, net_calls, fetches, progress,
                   stdout, json_out, input>>

SpecSum == InitSum /\ [][ApplySummarize]_vars

----------------------------------------------------------------------------
(* Claims *)

Range(s) == {s[k] : k \in 1..Len(s)}
Abs(x) == IF x < 0 THEN -x ELSE x
HttpScheme(url) ==
    \/ startswith(url, <<"h","t","t","p",":","/","/">>)
    \/ startswith(url, <<"h","t","t","p","s",":","/","/">>)

\* C1: when analyze_blocks returns for count >= 1 and latest - count + 1 >= 0,
\* it returns exactly count records numbered latest-count+1 .. latest in that
\* order, each number fetched exactly once in ascending order, where latest is
\* the head read at the start, however far the head has advanced since.
C1_AnalyzeReturnsRange ==
    (blocks.set /\ count >= 1 /\ latest - count + 1 >= 0) =>
        /\ Len(blocks.value) = count
        /\ \A j \in 1..count :
              blocks.value[j].block_number = latest - count + j
        /\ Len(fetches) = count
        /\ \A j \in 1..count :
              fetches[j] = [block |-> latest - count + j, ok |-> TRUE]
        /\ latest <= head

\* C1 witness: a range of at least two blocks was returned after the head
\* moved past the value read at the start.
C1_Witness ==
    /\ blocks.set
    /\ count >= 2
    /\ Len(blocks.value) = count
    /\ head > latest

\* C2: a failed fetch is the last thing the run does: no later block is
\* fetched, no sequence is returned, nothing is summarized or printed as a
\* result, and the run ends with status 2.
C2_FetchFailureAborts ==
    \A k \in 1..Len(fetches) :
        ~fetches[k].ok =>
            /\ k = Len(fetches)
            /\ Len(net_calls) = 2 + k
            /\ pc = "done"
            /\ exit_code = 2
            /\ ~blocks.set
            /\ ~summary.set
            /\ ~json_out.set
            /\ "summary" \notin Range(stdout)

\* C2 witness: the fetch of the second block of the range failed after the
\* first had been collected.
C2_Witness ==
    /\ Len(fetches) = 2
    /\ fetches[1].ok
    /\ ~fetches[2].ok
    /\ i < latest
    /\ exit_code = 2

\* C3 (as claimed): a finished run has status 0 only after a summary was
\* printed, status 1 only when the URL was rejected or the connectivity check
\* failed, and status 2 whenever a fetch failed, for every --count.
C3_ExitCodeByOutcome ==
    pc = "done" =>
        /\ exit_code \in {0, 1, 2}
        /\ exit_code = 0 => (blocks.set /\ summary.set /\ "summary" \in Range(stdout))
        /\ exit_code = 1 => (net_calls = <<>> \/ net_calls = <<"is_connected">>)
        /\ (\E k \in 1..Len(fetches) : ~fetches[k].ok) => exit_code = 2

\* C4 (as claimed): main never looks up a statistical field in a summary that
\* is the "no data" sentinel.
C4_SentinelCheckedBeforeRead ==
    ~(summary.set /\ summary.value = NoData /\ summary_reads # <<>>)

\* C5: an --rpc value without the http:// or https:// prefix ends the run with
\* status 1 and no remote call of any kind.
C5_InvalidRpcNoNetwork ==
    ~HttpScheme(rpc) =>
        /\ net_calls = <<>>
        /\ fetches = <<>>
        /\ pc \in {"start", "done"}
        /\ pc = "done" => exit_code = 1

\* C5 witness: the run with --rpc ftp://x has ended.
C5_Witness ==
    /\ rpc = UrlFtp
    /\ pc = "done"
    /\ exit_code = 1
    /\ stdout = <<"invalid_rpc">>

\* C6: for a non-empty input, summarize returns
\* min_utilization_percent <= avg_utilization_percent <= max_utilization_percent.
C6_MinAvgMax ==
    (pc = "sum_out" /\ input # <<>>) =>
        /\ output.ok
        /\ output.value.min_utilization_percent
              <= output.value.avg_utilization_percent
        /\ output.value.avg_utilization_percent
              <= output.value.max_utilization_percent

\* C6 witness: utilizations 0.0 and 28.57, whose float mean 14.285 is rounded
\* to 14.29, strictly between the extremes.
C6_Witness ==
    /\ pc = "sum_out"
    /\ Len(input) = 2
    /\ input[1].utilization_percent = 0
    /\ input[2].utilization_percent = 2857
    /\ output.value.avg_utilization_percent = 1429
    /\ Sum([k \in 1..Len(input) |-> input[k].utilization_percent]) % Len(input) # 0
    /\ output.value.min_utilization_percent < output.value.avg_utilization_percent
    /\ output.value.avg_utilization_percent < output.value.max_utilization_percent

\* C7: summarize never raises; the empty sequence gives the sentinel, and a
\* non-empty one gives the five statistical fields, with total_blocks the
\* number of records, and never the sentinel.
C7_SummarizeTotal ==
    pc = "sum_out" =>
        /\ output.ok
        /\ input = <<>> => output.value = NoData
        /\ input # <<>> =>
              /\ DOMAIN output.value = Range(StatKeys)
              /\ output.value.total_blocks = Len(input)
              /\ output.value # NoData

\* C7 witness: summarize has run on the empty sequence.
C7_Witness ==
    /\ pc = "sum_out"
    /\ input = <<>>
    /\ output = Ok(NoData)

\* C8: a fetched record has utilization_percent = round(gas_used / gas_limit
\* * 100, 2) when gas_limit > 0: a hundredth nearest to the quotient, which is
\* 3.12 for 1/32 (a tie of the exact float, to even), 14.37 for 23/160 and 0.01
\* for 1500/30000000 (the float product lies beside the decimal tie) and 50.0
\* for 15000000/30000000; it is 0 when gas_limit = 0, and the fetch does not
\* fail then.
C8_Utilization ==
    (pc = "fetch_out" /\ input.ok) =>
        /\ ({"number", "timestamp"} \subseteq DOMAIN input.value
               /\ Get(input.value, "gasLimit", 0) = 0) => output.ok
        /\ output.ok =>
              LET l == output.value.gas_limit
                  u == output.value.gas_used
                  p == output.value.utilization_percent
              IN  /\ l = 0 => p = 0
                  /\ (l > 0 /\ u <= 100000) =>
                        2 * Abs(p * l - 100 * 100 * u) <= l
                  /\ (l > 0 /\ l = 2 * u) => p = 5000
                  /\ (l = 32 /\ u = 1) => p = 312
                  /\ (l = 160 /\ u = 23) => p = 1437
                  /\ (l = 30000000 /\ u = 1500) => p = 1

\* C8 witness: 23 of 160 gas used; the quotient 14.375 is a decimal tie, the
\* float product is 14.374999999999998, and the record holds 14.37.
C8_Witness ==
    /\ pc = "fetch_out"
    /\ output.ok
    /\ output.value.gas_limit = 160
    /\ output.value.gas_used = 23
    /\ output.value.utilization_percent = 1437

\* C9 (as claimed): a response missing gasLimit, gasUsed, number or timestamp
\* makes the fetch fail.
C9_MalformedAlwaysFails ==
    (pc = "fetch_out" /\ input.ok
        /\ \E k \in {"gasLimit", "gasUsed", "number", "timestamp"} :
              k \notin DOMAIN input.value)
    => ~output.ok

\* C9 (amended): the fetch of a delivered response fails exactly when number
\* or timestamp is missing; a missing baseFeePerGas, gasLimit or gasUsed is
\* tolerated and reads as 0.
C9_MissingFields ==
    (pc = "fetch_out" /\ input.ok) =>
        /\ output.ok <=> {"number", "timestamp"} \subseteq DOMAIN input.value
        /\ output.ok =>
              /\ "baseFeePerGas" \notin DOMAIN input.value
                    => output.value.base_fee_wei = 0
              /\ "gasLimit" \notin DOMAIN input.value
                    => output.value.gas_limit = 0
              /\ "gasUsed" \notin DOMAIN input.value
                    => output.value.gas_used = 0

\* C9 witness: a response without gasLimit produced a record with gas_limit 0
\* and utilization 0.
C9_Witness ==
    /\ pc = "fetch_out"
    /\ input.ok
    /\ "gasLimit" \notin DOMAIN input.value
    /\ "gasUsed" \in DOMAIN input.value
    /\ output.ok
    /\ output.value.gas_limit = 0
    /\ output.value.utilization_percent = 0

\* C10 (as claimed): the k-th progress line comes after the k-th fetch has
\* completed, so there are never more progress lines than completed fetches,
\* and a block whose fetch fails is never reported.
C10_ProgressAfterFetch ==
    /\ Len(progress) <= Cardinality({k \in 1..Len(fetches) : fetches[k].ok})
    /\ \A k \in 1..Len(fetches) :
          ~fetches[k].ok => \A j \in 1..Len(progress) :
                                progress[j].block # fetches[k].block

====
